---- MODULE Spec2Model ----
(***************************************************************************)
(* nae-gfx/src/batchers.rs: the capacity policy (max_vertices,             *)
(* batch_vertices), the construction of ImageBatcher and ColorBatcher, and *)
(* ColorBatcher's push_data / check_batch_size / split_batch /             *)
(* push_vertices / flush, against a log of the calls made on Graphics.     *)
(*                                                                         *)
(* The two Vec storages are kept as their length plus the set of runs the  *)
(* program wrote into them (everything outside a run still holds the 0 the *)
(* vec! / resize fill put there), so that the real sizes (65520 scalars,   *)
(* 9360 indices) can be used unchanged.                                    *)
(***************************************************************************)
EXTENDS Integers, Sequences, FiniteSets, TLC

VARIABLES
    api,        \* gfx.api() of the Graphics the batchers were built on
    pattern,    \* how the caller's requests index their raw vertices
    paint,      \* the color, transform and alpha the caller's requests carry
    cb,         \* the ColorBatcher: its fields
    image,      \* the ImageBatcher: its fields (it has no operation besides new)
    gfx,        \* the calls made on Graphics so far, in order
    panicked,   \* an index/slice bound check of the program failed (Rust panic)
    pushed,     \* the DrawData given to push_data so far, in order
    last,       \* the last operation called
    bv_offset,  \* batch_vertices: its argument
    bv_n,       \* batch_vertices: the local n of its loop
    bv_pc       \* batch_vertices: "loop" or "done"

vars == <<api, pattern, paint, cb, image, gfx, panicked, pushed, last, bv_offset, bv_n, bv_pc>>

(* ------------------------------ bounds -------------------------------- *)
MaxPushes == 2
MaxStride == 32

(* -------------------------- program constants ------------------------- *)
U16_MAX == 65535
\* std::u32::MAX = 4294967295 as two 16 bit limbs <<high, low>>, the
\* integers of the model being 32 bit signed
U32_MAX == <<U16_MAX, U16_MAX>>
\* integers below 2^24 are exact in f32
F32_EXACT == 2^24
COLOR_OFFSET == 7
IMAGE_OFFSET == 9
NaN == 0 - 1

(* ------------------------------- inputs ------------------------------- *)
Apis == {"WebGl", "Other"}
Blends == {"NORMAL", "ADD"}
Projections == {"P1", "P2"}
\* how a request's local indices run over its raw vertices
IndexPatterns == {"seq", "rev"}
\* index counts: two triangles, one whole initial batch, two of them, and
\* one index more than that
Sizes == {6, 9360, 18720, 18721}

\* Matrix4 as its four rows, Color as its channels
IDENTITY == <<<<1, 0, 0, 0>>, <<0, 1, 0, 0>>, <<0, 0, 1, 0>>, <<0, 0, 0, 1>>>>
SCALE_SHIFT == <<<<2, 0, 0, 2>>, <<0, 2, 0, 3>>, <<0, 0, 1, 0>>, <<0, 0, 0, 1>>>>
WHITE == [r |-> 1, g |-> 1, b |-> 1, a |-> 1]
MAGENTA == [r |-> 1, g |-> 0, b |-> 1, a |-> 1]
PlainPaint == [matrix |-> IDENTITY, color |-> WHITE, alpha |-> 1]
Paints ==
    { PlainPaint,
      [matrix |-> SCALE_SHIFT, color |-> MAGENTA, alpha |-> 0],
      [matrix |-> SCALE_SHIFT, color |-> WHITE, alpha |-> 1] }

\* the raw vertex k (x, y, z) of the request with the given id
RawVertex(id, k) == <<k, id, k + id>>

Min(a, b) == IF a < b THEN a ELSE b
Max(a, b) == IF a > b THEN a ELSE b

(* --------------------------- f32 arithmetic --------------------------- *)
RECURSIVE f32_ulp(_, _)
f32_ulp(n, p) == IF n < F32_EXACT * p THEN p ELSE f32_ulp(n, 2 * p)

\* `n as f32`: round to nearest, ties to even, on a 24 bit significand
as_f32(n) ==
    LET p == f32_ulp(n, 1)
        q == n \div p
        r == n % p
    IN  IF 2 * r < p THEN q * p
        ELSE IF 2 * r > p THEN (q + 1) * p
        ELSE IF q % 2 = 0 THEN q * p ELSE (q + 1) * p

\* the f32 `%`: exact on integral operands, NaN on a zero divisor
f32_rem(a, b) == IF b = 0 THEN NaN ELSE a % b

\* the f32 `==`: NaN equals nothing
f32_eq(a, b) == a # NaN /\ b # NaN /\ a = b

(* --------------------------- capacity policy -------------------------- *)
\* a usize as two 16 bit limbs, and the usize `<` on an integer and limbs
limbs(x) == <<x \div (U16_MAX + 1), x % (U16_MAX + 1)>>
usize_lt(x, m) ==
    LET l == limbs(x)
    IN  l[1] < m[1] \/ (l[1] = m[1] /\ l[2] < m[2])

usize_le(x, m) == usize_lt(x, m) \/ limbs(x) = m

max_vertices(a) == IF a = "WebGl" THEN limbs(U16_MAX) ELSE U32_MAX

\* the break test without its `nf % 3.0 == 0.0` half
bv_break_stride_only(n, offset) ==
    f32_eq(f32_rem(as_f32(n), as_f32(offset)), 0)

\* the test of the loop of batch_vertices that breaks out of it
bv_break(n, offset) ==
    /\ f32_eq(f32_rem(as_f32(n), as_f32(offset)), 0)
    /\ f32_eq(f32_rem(as_f32(n), 3), 0)

RECURSIVE bv_scan(_, _)
bv_scan(n, offset) ==
    IF n > 0 /\ ~bv_break(n, offset) THEN bv_scan(n - 1, offset) ELSE n

batch_vertices(offset) == bv_scan(U16_MAX, offset)

(* ------------------------------ storage ------------------------------- *)
\* A run o of a storage: positions o.pos .. o.pos+o.len-1 were written in one
\* go; o.from is how far into the written slice the run starts.
\* Vertex Storage, in records of `offset` scalars: record o.pos+i holds
\* raw vertex o.from+i of request o.req transformed by o.matrix, then the
\* four color scalars o.rgba.
\* Index Storage: entry o.pos+i holds o.base + the element o.from+i of the
\* index slice (o.ix, o.n) that was passed to push_vertices.
LocalIndex(ix, n, j) == IF ix = "seq" THEN j ELSE n - 1 - j

WriteRun(S, r) ==
    IF r.len <= 0 THEN S
    ELSE LET rend == r.pos + r.len
             left == {[o EXCEPT !.len = Min(o.len, r.pos - o.pos)] :
                         o \in {x \in S : x.pos < r.pos}}
             right == {LET np == Max(o.pos, rend)
                       IN  [o EXCEPT !.pos = np,
                                     !.len = o.pos + o.len - np,
                                     !.from = o.from + (np - o.pos)] :
                         o \in {x \in S : x.pos + x.len > rend}}
         IN  left \cup right \cup {r}

(* ---------------------------- construction ---------------------------- *)
\* new sizing the storages by u16::MAX itself, not by batch_vertices
new_unaligned(a, offset) ==
    [ offset       |-> offset,
      vertices_len |-> U16_MAX,
      vertices     |-> {},
      indices_len  |-> U16_MAX \div offset,
      indices      |-> {},
      index        |-> 0,
      max_vertices |-> max_vertices(a),
      batch_size   |-> U16_MAX,
      color_blend  |-> "NORMAL" ]

new(a, offset) ==
    LET batch_size == batch_vertices(offset)
    IN  [ offset       |-> offset,
          vertices_len |-> batch_size,
          vertices     |-> {},
          indices_len  |-> batch_size \div offset,
          indices      |-> {},
          index        |-> 0,
          max_vertices |-> max_vertices(a),
          batch_size   |-> batch_size,
          color_blend  |-> "NORMAL" ]

(* ------------------------------- flush -------------------------------- *)
\* flush without its `if self.index == 0 { return; }`
flush_unguarded(w, projection) ==
    IF w.panicked THEN w
    ELSE [w EXCEPT
            !.gfx = @ \o
              << [call |-> "set_pipeline", blend |-> w.cb.color_blend],
                 [call |-> "bind_vertex_buffer", len |-> w.cb.vertices_len,
                  data |-> w.cb.vertices],
                 [call |-> "bind_index_buffer", len |-> w.cb.indices_len,
                  data |-> w.cb.indices],
                 [call |-> "bind_uniform", projection |-> projection],
                 [call |-> "draw", start |-> 0, count |-> w.cb.index] >>,
            !.cb.index = 0]

\* flush drawing the whole Index Storage (`self.indices.len()` for
\* `self.index` as the count of the draw call)
flush_whole_storage(w, projection) ==
    IF w.panicked \/ w.cb.index = 0 THEN w
    ELSE [w EXCEPT
            !.gfx = @ \o
              << [call |-> "set_pipeline", blend |-> w.cb.color_blend],
                 [call |-> "bind_vertex_buffer", len |-> w.cb.vertices_len,
                  data |-> w.cb.vertices],
                 [call |-> "bind_index_buffer", len |-> w.cb.indices_len,
                  data |-> w.cb.indices],
                 [call |-> "bind_uniform", projection |-> projection],
                 [call |-> "draw", start |-> 0, count |-> w.cb.indices_len] >>,
            !.cb.index = 0]

\* w is the world an operation runs in: [cb, gfx, panicked]
flush(w, projection) ==
    IF w.panicked \/ w.cb.index = 0 THEN w
    ELSE [w EXCEPT
            !.gfx = @ \o
              << [call |-> "set_pipeline", blend |-> w.cb.color_blend],
                 [call |-> "bind_vertex_buffer", len |-> w.cb.vertices_len,
                  data |-> w.cb.vertices],
                 [call |-> "bind_index_buffer", len |-> w.cb.indices_len,
                  data |-> w.cb.indices],
                 [call |-> "bind_uniform", projection |-> projection],
                 [call |-> "draw", start |-> 0, count |-> w.cb.index] >>,
            !.cb.index = 0]

(* --------------------------- check_batch_size ------------------------- *)
\* check_batch_size without the `can_be_bigger` test
check_batch_size_unbounded(w, data) ==
    LET next_size == w.cb.vertices_len + w.cb.batch_size
        is_bigger == data.n > w.cb.indices_len
        is_more == w.cb.index + data.n >= w.cb.indices_len
    IN  IF w.panicked THEN w
        ELSE IF is_bigger \/ is_more
        THEN LET f == flush(w, data.projection)
             IN  [f EXCEPT !.cb.vertices_len = next_size,
                           !.cb.indices_len = next_size \div w.cb.offset]
        ELSE w

\* check_batch_size with `>` for the `>=` of is_more
check_batch_size_strict_more(w, data) ==
    LET next_size == w.cb.vertices_len + w.cb.batch_size
        can_be_bigger == usize_lt(next_size, w.cb.max_vertices)
        is_bigger == data.n > w.cb.indices_len
        is_more == w.cb.index + data.n > w.cb.indices_len
    IN  IF w.panicked THEN w
        ELSE IF can_be_bigger /\ (is_bigger \/ is_more)
        THEN LET f == flush(w, data.projection)
             IN  [f EXCEPT !.cb.vertices_len = next_size,
                           !.cb.indices_len = next_size \div w.cb.offset]
        ELSE w

check_batch_size(w, data) ==
    LET next_size == w.cb.vertices_len + w.cb.batch_size
        can_be_bigger == usize_lt(next_size, w.cb.max_vertices)
        is_bigger == data.n > w.cb.indices_len
        is_more == w.cb.index + data.n >= w.cb.indices_len
    IN  IF w.panicked THEN w
        ELSE IF can_be_bigger /\ (is_bigger \/ is_more)
        THEN LET f == flush(w, data.projection)
             IN  [f EXCEPT !.cb.vertices_len = next_size,
                           !.cb.indices_len = next_size \div w.cb.offset]
        ELSE w

(* ----------------------------- push_vertices -------------------------- *)
\* the f32 `*` and `+` on non-negative integral operands
f32_mul(a, b) == as_f32(a * b)
f32_add(a, b) == as_f32(a + b)

\* crate::matrix4_mul_vector4: the 4x4 transform applied to a 4-vector
matrix4_mul_vector4(m, v) ==
    [i \in 1 .. 4 |->
        f32_add(f32_add(f32_mul(m[i][1], v[1]), f32_mul(m[i][2], v[2])),
                f32_add(f32_mul(m[i][3], v[3]), f32_mul(m[i][4], v[4])))]

\* Color::to_rgba: the channels as [r, g, b, a]
to_rgba(color) == <<color.r, color.g, color.b, color.a>>

\* indices: the index slice [ix, n, from, len] (the len elements from `from`
\* on of the pattern ix over n); vertices: the scalar range [req, lo, hi) of request req's raw
\* vertices. Every write is bound-checked: the first one out of bounds
\* panics, the ones before it have been made.
\* push_vertices advancing the cursor by the scalar count of the raw
\* vertices instead of the index count
push_vertices_by_scalars(w, indices, vertices, color, matrix, alpha) ==
    LET c == w.cb
        ifit == Max(0, Min(indices.len, c.indices_len - c.index))
        irun == [pos |-> c.index, len |-> ifit, from |-> indices.from,
                 base |-> c.index,
                 ix |-> indices.ix, n |-> indices.n]
        whole == (vertices.hi - vertices.lo) \div 3
        rgba == to_rgba(color)
        vrun == [pos |-> c.index, len |-> whole, from |-> vertices.lo \div 3,
                 req |-> vertices.req, matrix |-> matrix,
                 rgba |-> <<rgba[1], rgba[2], rgba[3], f32_mul(rgba[4], alpha)>>]
    IN  IF w.panicked THEN w
        ELSE IF ifit < indices.len
        THEN [w EXCEPT !.cb.indices = WriteRun(@, irun), !.panicked = TRUE]
        ELSE [w EXCEPT !.cb.indices = WriteRun(@, irun),
                       !.cb.vertices = WriteRun(@, vrun),
                       !.cb.index = @ + (vertices.hi - vertices.lo)]

\* push_vertices writing the records from the start of Vertex Storage
\* (`index_offset = 0`) instead of from the cursor
push_vertices_at_zero(w, indices, vertices, color, matrix, alpha) ==
    LET c == w.cb
        ifit == Max(0, Min(indices.len, c.indices_len - c.index))
        irun == [pos |-> c.index, len |-> ifit, from |-> indices.from,
                 base |-> c.index,
                 ix |-> indices.ix, n |-> indices.n]
        nrec == (vertices.hi - vertices.lo + 2) \div 3
        whole == (vertices.hi - vertices.lo) \div 3
        \* records whose 7 scalars index_offset+0 .. index_offset+6 fit
        room == IF c.vertices_len >= 7
                THEN (c.vertices_len - 7) \div c.offset + 1 ELSE 0
        vfit == Max(0, Min(whole, room - c.index))
        rgba == to_rgba(color)
        vrun == [pos |-> 0, len |-> vfit, from |-> vertices.lo \div 3,
                 req |-> vertices.req, matrix |-> matrix,
                 rgba |-> <<rgba[1], rgba[2], rgba[3], f32_mul(rgba[4], alpha)>>]
    IN  IF w.panicked THEN w
        ELSE IF ifit < indices.len
        THEN [w EXCEPT !.cb.indices = WriteRun(@, irun), !.panicked = TRUE]
        ELSE IF vfit < nrec
        THEN [w EXCEPT !.cb.indices = WriteRun(@, irun),
                       !.cb.vertices = WriteRun(@, vrun),
                       !.panicked = TRUE]
        ELSE [w EXCEPT !.cb.indices = WriteRun(@, irun),
                       !.cb.vertices = WriteRun(@, vrun),
                       !.cb.index = @ + indices.len]

\* push_vertices storing the color's own alpha (`a` for `a * alpha`)
push_vertices_no_alpha(w, indices, vertices, color, matrix, alpha) ==
    LET c == w.cb
        ifit == Max(0, Min(indices.len, c.indices_len - c.index))
        irun == [pos |-> c.index, len |-> ifit, from |-> indices.from,
                 base |-> c.index,
                 ix |-> indices.ix, n |-> indices.n]
        nrec == (vertices.hi - vertices.lo + 2) \div 3
        whole == (vertices.hi - vertices.lo) \div 3
        \* records whose 7 scalars index_offset+0 .. index_offset+6 fit
        room == IF c.vertices_len >= 7
                THEN (c.vertices_len - 7) \div c.offset + 1 ELSE 0
        vfit == Max(0, Min(whole, room - c.index))
        rgba == to_rgba(color)
        vrun == [pos |-> c.index, len |-> vfit, from |-> vertices.lo \div 3,
                 req |-> vertices.req, matrix |-> matrix,
                 rgba |-> <<rgba[1], rgba[2], rgba[3], rgba[4]>>]
    IN  IF w.panicked THEN w
        ELSE IF ifit < indices.len
        THEN [w EXCEPT !.cb.indices = WriteRun(@, irun), !.panicked = TRUE]
        ELSE IF vfit < nrec
        THEN [w EXCEPT !.cb.indices = WriteRun(@, irun),
                       !.cb.vertices = WriteRun(@, vrun),
                       !.panicked = TRUE]
        ELSE [w EXCEPT !.cb.indices = WriteRun(@, irun),
                       !.cb.vertices = WriteRun(@, vrun),
                       !.cb.index = @ + indices.len]

push_vertices(w, indices, vertices, color, matrix, alpha) ==
    LET c == w.cb
        ifit == Max(0, Min(indices.len, c.indices_len - c.index))
        irun == [pos |-> c.index, len |-> ifit, from |-> indices.from,
                 base |-> c.index,
                 ix |-> indices.ix, n |-> indices.n]
        nrec == (vertices.hi - vertices.lo + 2) \div 3
        whole == (vertices.hi - vertices.lo) \div 3
        \* records whose 7 scalars index_offset+0 .. index_offset+6 fit
        room == IF c.vertices_len >= 7
                THEN (c.vertices_len - 7) \div c.offset + 1 ELSE 0
        vfit == Max(0, Min(whole, room - c.index))
        rgba == to_rgba(color)
        vrun == [pos |-> c.index, len |-> vfit, from |-> vertices.lo \div 3,
                 req |-> vertices.req, matrix |-> matrix,
                 rgba |-> <<rgba[1], rgba[2], rgba[3], f32_mul(rgba[4], alpha)>>]
    IN  IF w.panicked THEN w
        ELSE IF ifit < indices.len
        THEN [w EXCEPT !.cb.indices = WriteRun(@, irun), !.panicked = TRUE]
        ELSE IF vfit < nrec
        THEN [w EXCEPT !.cb.indices = WriteRun(@, irun),
                       !.cb.vertices = WriteRun(@, vrun),
                       !.panicked = TRUE]
        ELSE [w EXCEPT !.cb.indices = WriteRun(@, irun),
                       !.cb.vertices = WriteRun(@, vrun),
                       !.cb.index = @ + indices.len]

(* ------------------------------ split_batch --------------------------- *)
\* split_batch slicing every chunk's raw vertices from the start of the
\* request (`&data.vertices[0..(end - start) * 3]`)
RECURSIVE split_loop_first_vertices(_, _, _, _)
split_loop_first_vertices(w, data, i, iterations) ==
    IF i >= iterations \/ w.panicked THEN w
    ELSE LET len == w.cb.indices_len
             start == i * len
             end == Min(start + len, data.n)
         IN  split_loop_first_vertices(
                flush(push_vertices(w,
                        [ix |-> "seq", n |-> end - start, from |-> 0,
                         len |-> end - start],
                        [req |-> data.id, lo |-> 0, hi |-> (end - start) * 3],
                        data.color, data.matrix, data.alpha),
                      data.projection),
                data, i + 1, iterations)

\* split_batch without the remapping of the chunk's indices
\* (`indices[i] = v as u32`)
RECURSIVE split_loop_no_remap(_, _, _, _)
split_loop_no_remap(w, data, i, iterations) ==
    IF i >= iterations \/ w.panicked THEN w
    ELSE LET len == w.cb.indices_len
             start == i * len
             end == Min(start + len, data.n)
         IN  split_loop_no_remap(
                flush(push_vertices(w,
                        [ix |-> "seq", n |-> data.n, from |-> start,
                         len |-> end - start],
                        [req |-> data.id, lo |-> start * 3, hi |-> end * 3],
                        data.color, data.matrix, data.alpha),
                      data.projection),
                data, i + 1, iterations)

RECURSIVE split_loop(_, _, _, _)
split_loop(w, data, i, iterations) ==
    IF i >= iterations \/ w.panicked THEN w
    ELSE LET len == w.cb.indices_len
             start == i * len
             end == Min(start + len, data.n)
         IN  IF end * 3 > data.nverts \/ start > end
             THEN [w EXCEPT !.panicked = TRUE]
             ELSE split_loop(
                    flush(push_vertices(w,
                            [ix |-> "seq", n |-> end - start, from |-> 0,
                             len |-> end - start],
                            [req |-> data.id, lo |-> start * 3, hi |-> end * 3],
                            data.color, data.matrix, data.alpha),
                          data.projection),
                    data, i + 1, iterations)

split_batch(w, data) ==
    split_loop(w, data, 0, (data.n \div w.cb.indices_len) + 1)

(* ------------------------------- push_data ---------------------------- *)
\* push_data with the flush of a full batch made after the append
push_data_flush_late(w, data) ==
    LET w1 == check_batch_size(w, data)
    IN  IF data.n > w1.cb.indices_len THEN split_batch(w1, data)
        ELSE
        LET next_index == w1.cb.index + data.n
            w2 == IF w1.cb.color_blend # data.blend
                  THEN [flush(w1, data.projection) EXCEPT
                            !.cb.color_blend = data.blend]
                  ELSE w1
            w3 == push_vertices(w2,
                    [ix |-> data.ix, n |-> data.n, from |-> 0, len |-> data.n],
                    [req |-> data.id, lo |-> 0, hi |-> data.nverts],
                    data.color, data.matrix, data.alpha)
        IN  IF next_index >= w1.cb.indices_len
            THEN flush(w3, data.projection) ELSE w3

push_data(w, data) ==
    LET w1 == check_batch_size(w, data)
    IN  IF data.n > w1.cb.indices_len THEN split_batch(w1, data)
        ELSE
        LET next_index == w1.cb.index + data.n
            w2 == IF next_index >= w1.cb.indices_len
                  THEN flush(w1, data.projection) ELSE w1
            w3 == IF w2.cb.color_blend # data.blend
                  THEN [flush(w2, data.projection) EXCEPT
                            !.cb.color_blend = data.blend]
                  ELSE w2
        IN  push_vertices(w3,
                [ix |-> data.ix, n |-> data.n, from |-> 0, len |-> data.n],
                [req |-> data.id, lo |-> 0, hi |-> data.nverts],
                data.color, data.matrix, data.alpha)

(* ------------------------------ the machine --------------------------- *)
World == [cb |-> cb, gfx |-> gfx, panicked |-> panicked]

\* the well-formed requests: one raw vertex (3 scalars) per index, local
\* indices a permutation of 0 .. n-1
DrawData(id) ==
    { [id |-> id, n |-> n, nverts |-> 3 * n, ix |-> pattern, blend |-> b,
       projection |-> p, color |-> paint.color, matrix |-> paint.matrix,
       alpha |-> paint.alpha] :
        n \in Sizes, b \in Blends, p \in Projections }

Init ==
    /\ api \in Apis
    /\ pattern \in IndexPatterns
    /\ paint = PlainPaint
    /\ cb = new(api, COLOR_OFFSET)
    /\ image = new(api, IMAGE_OFFSET)
    /\ gfx = << >>
    /\ panicked = FALSE
    /\ pushed = << >>
    /\ last = "new"
    /\ bv_offset = COLOR_OFFSET
    /\ bv_n = batch_vertices(COLOR_OFFSET)
    /\ bv_pc = "done"

Push ==
    /\ ~panicked
    /\ Len(pushed) < MaxPushes
    /\ \E data \in DrawData(Len(pushed) + 1) :
        LET w == push_data(World, data)
        IN  /\ cb' = w.cb
            /\ gfx' = w.gfx
            /\ panicked' = w.panicked
            /\ pushed' = Append(pushed, data)
            /\ last' = "push_data"
    /\ UNCHANGED <<api, pattern, paint, image, bv_offset, bv_n, bv_pc>>

Flush ==
    /\ ~panicked
    /\ \E p \in Projections :
        LET w == flush(World, p)
        IN  /\ cb' = w.cb
            /\ gfx' = w.gfx
            /\ panicked' = w.panicked
            /\ last' = "flush"
    /\ UNCHANGED <<api, pattern, paint, image, pushed, bv_offset, bv_n, bv_pc>>

Next == Push \/ Flush

Spec == Init /\ [][Next]_vars

(* ---------------- batch_vertices, one loop iteration a step ----------- *)
InitBV ==
    /\ api = "WebGl"
    /\ pattern = "seq"
    /\ paint = PlainPaint
    /\ cb = new(api, COLOR_OFFSET)
    /\ image = new(api, IMAGE_OFFSET)
    /\ gfx = << >>
    /\ panicked = FALSE
    /\ pushed = << >>
    /\ last = "new"
    /\ bv_offset \in 0 .. MaxStride
    /\ bv_n = U16_MAX
    /\ bv_pc = "loop"

\* `n -= 1`: the loop test held and the break test did not
BvDecrement ==
    /\ bv_pc = "loop"
    /\ bv_n > 0
    /\ ~bv_break(bv_n, bv_offset)
    /\ bv_n' = bv_n - 1
    /\ UNCHANGED <<api, pattern, paint, cb, image, gfx, panicked, pushed, last,
                   bv_offset, bv_pc>>

\* `break`
BvBreak ==
    /\ bv_pc = "loop"
    /\ bv_n > 0
    /\ bv_break(bv_n, bv_offset)
    /\ bv_pc' = "done"
    /\ UNCHANGED <<api, pattern, paint, cb, image, gfx, panicked, pushed, last,
                   bv_offset, bv_n>>

\* `while n > 0` fails
BvExhausted ==
    /\ bv_pc = "loop"
    /\ bv_n = 0
    /\ bv_pc' = "done"
    /\ UNCHANGED <<api, pattern, paint, cb, image, gfx, panicked, pushed, last,
                   bv_offset, bv_n>>

\* the sizing of the storages in `new`, for the stride bv_offset and the
\* returned batch_size: `batch_size / vertex_buffer.offset()` is an integer
\* division, which panics for a zero divisor
New ==
    /\ bv_pc = "done"
    /\ IF bv_offset = 0
       THEN bv_pc' = "panic" /\ cb' = cb
       ELSE /\ bv_pc' = "built"
            /\ cb' = [ offset       |-> bv_offset,
                       vertices_len |-> bv_n,
                       vertices     |-> {},
                       indices_len  |-> bv_n \div bv_offset,
                       indices      |-> {},
                       index        |-> 0,
                       max_vertices |-> max_vertices(api),
                       batch_size   |-> bv_n,
                       color_blend  |-> "NORMAL" ]
    /\ UNCHANGED <<api, pattern, paint, image, gfx, panicked, pushed, last,
                   bv_offset, bv_n>>

NextBV == BvDecrement \/ BvBreak \/ BvExhausted \/ New

\* the loop is straight-line code of one thread: it keeps running
SpecBV == InitBV /\ [][NextBV]_vars /\ WF_vars(NextBV)

(* ---------------------- what a draw call draws ------------------------ *)
\* The geometry that index entries p .. c-1 of the index storage I select
\* from the vertex storage V, as the sequence of [req, lo, hi]: raw vertices
\* lo .. hi of request req, one element per index run. req = 0 stands for
\* entries or records that no push wrote.
RECURSIVE Segments(_, _, _, _)
Segments(I, V, p, c) ==
    IF p >= c THEN << >>
    ELSE LET R == {o \in I : o.pos = p}
         IN  IF R = {} THEN << [req |-> 0, lo |-> p, hi |-> c - 1] >>
             ELSE
             LET o == CHOOSE x \in R : TRUE
                 l == Min(o.len, c - p)
                 vlo == o.base + (IF o.ix = "seq" THEN o.from
                                  ELSE o.n - o.from - l)
                 vhi == vlo + l - 1
                 VV == {v \in V : v.pos <= vlo /\ vhi < v.pos + v.len}
                 seg == IF VV = {} THEN [req |-> 0, lo |-> vlo, hi |-> vhi]
                        ELSE LET v == CHOOSE x \in VV : TRUE
                             IN  [req |-> v.req,
                                  lo |-> v.from + (vlo - v.pos),
                                  hi |-> v.from + (vhi - v.pos)]
             IN  <<seg>> \o Segments(I, V, p + l, c)

\* the last call named `name` in the call log g up to call j
LastCall(g, j, name) ==
    CHOOSE i \in 1 .. j :
        g[i].call = name /\ \A k \in (i + 1) .. j : g[k].call # name

\* the geometry of the draw call g[j], from the buffers bound at that time
DrawSegments(g, j) ==
    Segments(g[LastCall(g, j, "bind_index_buffer")].data,
             g[LastCall(g, j, "bind_vertex_buffer")].data,
             g[j].start, g[j].start + g[j].count)

DrawCalls == {j \in 1 .. Len(gfx) : gfx[j].call = "draw"}

RECURSIVE DrawnUpTo(_)
DrawnUpTo(j) ==
    IF j = 0 THEN << >>
    ELSE DrawnUpTo(j - 1) \o (IF j \in DrawCalls THEN DrawSegments(gfx, j) ELSE << >>)

\* the unflushed batch
PendingSegments == Segments(cb.indices, cb.vertices, 0, cb.index)

\* adjacent segments that continue one another, joined
RECURSIVE Merge(_)
Merge(s) ==
    IF Len(s) <= 1 THEN s
    ELSE IF s[1].req = s[2].req /\ s[2].lo = s[1].hi + 1
         THEN Merge(<<[s[1] EXCEPT !.hi = s[2].hi]>> \o Tail(Tail(s)))
         ELSE <<s[1]>> \o Merge(Tail(s))

\* the requests whose push completed
Completed == Len(pushed) - (IF panicked THEN 1 ELSE 0)

(* ============================== claims ================================ *)

\* C1: in every state reachable by push_data and flush calls, on either
\* platform ceiling and with requests of any size, the Write Cursor is within
\* 0 .. Vertex Storage length / Vertex Stride, which is the Index Storage
\* length.
C1_CursorInRange ==
    /\ 0 <= cb.index
    /\ cb.index <= cb.vertices_len \div cb.offset
    /\ cb.vertices_len \div cb.offset = cb.indices_len

\* a push has left the cursor on its upper bound, the batch being full
C1_Witness ==
    /\ last = "push_data"
    /\ ~panicked
    /\ cb.index = cb.indices_len

\* C2: push is infallible: every well-formed request, of any index count,
\* pushed in any reachable state, makes push_data complete with every write
\* inside Index Storage and Vertex Storage (no bound check fails).
C2_PushInfallible == last = "push_data" => ~panicked

\* C3: draw requests reach the backend in the order push was called: the
\* geometry of the successive draw calls, in draw order and followed by the
\* unflushed batch, is the raw vertices 0 .. n-1 of the first pushed request,
\* then those of the second, and so on; nothing of a request comes before
\* geometry of a request pushed earlier. (A request is taken as a whole: the
\* order of its own indices is not part of the statement.)
C3_DrawOrder ==
    Merge(DrawnUpTo(Len(gfx)) \o PendingSegments)
        = [k \in 1 .. Completed |-> [req |-> k, lo |-> 0, hi |-> pushed[k].n - 1]]

\* three draw calls of a split request, then a second request left pending
C3_Witness ==
    /\ ~panicked
    /\ Cardinality(DrawCalls) >= 3
    /\ Len(pushed) = 2
    /\ cb.index > 0

\* the step is a push_data call that returned, of the request LastData'
PushStep == last' = "push_data" /\ Len(pushed') = Len(pushed) + 1 /\ ~panicked'
LastData == pushed[Len(pushed)]

\* C4: pushing a request whose blend mode differs from the Active Blend Mode
\* always triggers exactly one flush before the request's vertices are
\* appended (the unflushed batch, if there is one, is drawn in one draw call
\* and the cursor restarts from 0, ending at the request's index count), and
\* after the push the Active Blend Mode is the request's blend mode.
C4_BlendFlush ==
    [][ (PushStep /\ LastData'.blend # cb.color_blend) =>
            /\ cb'.color_blend = LastData'.blend
            /\ cb'.index = LastData'.n
            /\ Len(gfx') = Len(gfx) + (IF cb.index > 0 THEN 5 ELSE 0)
            /\ cb.index > 0 => gfx'[Len(gfx')].count = cb.index ]_vars

\* the step is a push_data call (returned or not) that entered split_batch
SplitStep ==
    /\ last' = "push_data"
    /\ Len(pushed') = Len(pushed) + 1
    /\ LastData'.n > cb'.indices_len

\* the index entries 0 .. c-1 of the index storage I hold 0, 1, .., c-1
ZeroBased(I, c) ==
    \E o \in I : o.pos = 0 /\ o.len >= c /\ o.base = 0 /\ o.from = 0 /\ o.ix = "seq"

\* C5: a request whose index count exceeds capacity_indices() is cut into
\* consecutive chunks of at most capacity_indices() indices, each chunk
\* remapped to start at 0, appended as a sub-batch of its own and flushed at
\* once in its own draw call, whose count is the chunk size; a request of
\* 2*capacity_indices()+1 indices gives exactly the 3 draw calls of counts
\* capacity_indices(), capacity_indices(), 1. (capacity_indices() is the one
\* the split sees, after the growth check.)
C5_SplitChunks ==
    [][ SplitStep =>
          LET n == LastData'.n
              len == cb'.indices_len
              k == (n + len - 1) \div len
              pre == IF cb.index > 0 THEN 1 ELSE 0
              draw(i) == Len(gfx) + 5 * (pre + i)
          IN  /\ ~panicked'
              /\ cb'.index = 0
              /\ Len(gfx') = Len(gfx) + 5 * (pre + k)
              /\ \A i \in 1 .. k :
                    /\ gfx'[draw(i)].call = "draw"
                    /\ gfx'[draw(i)].count = Min(len, n - (i - 1) * len)
                    /\ ZeroBased(gfx'[draw(i) - 2].data, gfx'[draw(i)].count)
                    /\ DrawSegments(gfx', draw(i)) =
                         << [req |-> LastData'.id,
                             lo |-> (i - 1) * len,
                             hi |-> (i - 1) * len + gfx'[draw(i)].count - 1] >>
    ]_vars

\* C6: after any flush the Write Cursor is exactly 0, and a flush called
\* while the cursor is 0 is a no-op: no draw call, no bind, nothing changed.
C6_FlushResets ==
    [][ last' = "flush" =>
            /\ cb'.index = 0
            /\ cb.index = 0 => (gfx' = gfx /\ cb' = cb) ]_vars

\* flush was called after a flush had drawn a batch
C6_Witness ==
    /\ last = "flush"
    /\ cb.index = 0
    /\ Cardinality(DrawCalls) = 1
    /\ Len(pushed) = 1

\* C7: over any sequence of pushes the Vertex Storage never shrinks and never
\* exceeds the Platform Ceiling (65535 on WebGl, u32::MAX otherwise).
C7_MonotonicGrowth ==
    /\ [](usize_le(cb.vertices_len, max_vertices(api)))
    /\ [][cb'.vertices_len >= cb.vertices_len]_vars

\* the storage has grown twice
C7_Witness ==
    /\ api = "Other"
    /\ cb.vertices_len = 3 * cb.batch_size

\* C8: for the image batcher (stride 9) and the color batcher (stride 7) the
\* Vertex Storage length is a multiple of the stride and the Index Storage
\* length a multiple of 3, at construction and after every growth.
C8_StrideAlignment ==
    /\ cb.offset = 7 /\ image.offset = 9
    /\ cb.vertices_len % cb.offset = 0
    /\ cb.indices_len % 3 = 0
    /\ image.vertices_len % image.offset = 0
    /\ image.indices_len % 3 = 0

\* the color batcher's storage has grown
C8_Witness ==
    /\ cb.vertices_len = 2 * cb.batch_size
    /\ 3 * (cb.indices_len \div 3) = cb.indices_len

\* C9: for every stride in 1 .. 32 batch_vertices terminates, and returns a
\* value divisible by the stride and by 3 that is the largest such value not
\* exceeding 65535.
C9_IncrementValid ==
    /\ <>(bv_pc = "done")
    /\ []((bv_pc = "done" /\ bv_offset \in 1 .. MaxStride) =>
            /\ bv_n = batch_vertices(bv_offset)
            /\ bv_n \in 1 .. U16_MAX
            /\ bv_n % bv_offset = 0
            /\ bv_n % 3 = 0
            /\ \A m \in (bv_n + 1) .. U16_MAX :
                    ~(m % bv_offset = 0 /\ m % 3 = 0))

\* the scan has returned for the color stride, past 15 candidates
C9_Witness ==
    /\ bv_pc = "done"
    /\ bv_offset = COLOR_OFFSET
    /\ bv_n = U16_MAX - 15

\* the largest value an index run holds
IndexRunMax(o) ==
    o.base + (IF o.ix = "seq" THEN o.from + o.len - 1 ELSE o.n - 1 - o.from)

\* C10: every index value push writes into Index Storage is at most the
\* Platform Ceiling and refers to a vertex record inside the current Vertex
\* Storage (value < Vertex Storage length / stride).
C10_IndexValues ==
    \A o \in cb.indices :
        /\ usize_le(IndexRunMax(o), max_vertices(api))
        /\ IndexRunMax(o) < cb.vertices_len \div cb.offset

\* a push has written the largest index the storage admits
C10_Witness ==
    /\ last = "push_data"
    /\ \E o \in cb.indices : IndexRunMax(o) = cb.vertices_len \div cb.offset - 1

(* ------------------- sequences of small requests ---------------------- *)
MaxTriangles == 3

\* index counts of one and of two triangles
SmallSizes == {3, 6}

\* requests of one or two triangles, all under one projection
TriangleData(id) ==
    { [id |-> id, n |-> n, nverts |-> 3 * n, ix |-> pattern, blend |-> b,
       projection |-> "P1", color |-> paint.color, matrix |-> paint.matrix,
       alpha |-> paint.alpha] :
        n \in SmallSizes, b \in Blends }

InitSeq ==
    /\ api \in Apis
    /\ pattern = "seq"
    /\ paint \in Paints
    /\ cb = new(api, COLOR_OFFSET)
    /\ image = new(api, IMAGE_OFFSET)
    /\ gfx = << >>
    /\ panicked = FALSE
    /\ pushed = << >>
    /\ last = "new"
    /\ bv_offset = COLOR_OFFSET
    /\ bv_n = batch_vertices(COLOR_OFFSET)
    /\ bv_pc = "done"

PushSmall ==
    /\ ~panicked
    /\ Len(pushed) < MaxTriangles
    /\ \E data \in TriangleData(Len(pushed) + 1) :
        LET w == push_data(World, data)
        IN  /\ cb' = w.cb
            /\ gfx' = w.gfx
            /\ panicked' = w.panicked
            /\ pushed' = Append(pushed, data)
            /\ last' = "push_data"
    /\ UNCHANGED <<api, pattern, paint, image, bv_offset, bv_n, bv_pc>>

NextSeq == PushSmall \/ Flush

SpecSeq == InitSeq /\ [][NextSeq]_vars

\* the index counts of the requests i .. j, summed
RECURSIVE SumN(_, _)
SumN(i, j) == IF i > j THEN 0 ELSE pushed[j].n + SumN(i, j - 1)

\* C11: requests pushed one after the other with no flush in between lie in
\* Vertex Storage in push order, in contiguous non-overlapping ranges from
\* record 0 on, each one starting at the cursor value of the moment of its
\* push: the records below the cursor are exactly the records of the last m
\* requests, the one of each request starting where the previous one ends.
C11_ContiguousAppend ==
    \E m \in 0 .. Completed :
        LET first == Completed - m + 1
        IN  /\ SumN(first, Completed) = cb.index
            /\ Cardinality({v \in cb.vertices : v.pos < cb.index}) = m
            /\ \A k \in first .. Completed :
                    \E v \in cb.vertices :
                        /\ v.req = k
                        /\ v.pos = SumN(first, k - 1)
                        /\ v.len = pushed[k].n
                        /\ v.from = 0
            /\ (gfx = << >> => m = Completed)

\* three requests of one, two and one triangle were pushed and none drawn:
\* their records start at 0, 3 and 9
C11_Witness ==
    /\ Len(pushed) = 3
    /\ gfx = << >>
    /\ <<pushed[1].n, pushed[2].n, pushed[3].n>> = <<3, 6, 3>>
    /\ cb.index = 12
    /\ {<<v.req, v.pos, v.len>> : v \in cb.vertices}
            = {<<1, 0, 3>>, <<2, 3, 6>>, <<3, 9, 3>>}

\* C12: stride 0 is rejected: neither the computation of the Batch Increment
\* for stride 0 nor the construction of a batcher with it ends in anything
\* but an InvalidConfiguration error. batch_vertices and new have no such
\* outcome, so for stride 0 the scan never returns and nothing is built or
\* divided.
C12_StrideZeroRejected ==
    bv_offset = 0 => bv_pc = "loop"

\* the scalars of record v.pos + i of Vertex Storage, for a vertex run v
Record(v, i) ==
    LET raw == RawVertex(v.req, v.from + i)
        t == matrix4_mul_vector4(v.matrix, <<raw[1], raw[2], raw[3], 1>>)
    IN  <<t[1], t[2], t[3], v.rgba[1], v.rgba[2], v.rgba[3], v.rgba[4]>>

\* C13: every record of Vertex Storage is the transformed x, y, z of its raw
\* vertex followed by r, g, b and a * alpha of its request; under the
\* identity transform the position is the raw input itself, and color
\* (1,1,1,1) with alpha 1 is stored as (1,1,1,1).
C13_TransformCorrect ==
    \A v \in cb.vertices : \A i \in {0, v.len - 1} :
        LET data == pushed[v.req]
            raw == RawVertex(v.req, v.from + i)
            rec == Record(v, i)
        IN  /\ Len(rec) = cb.offset
            /\ data.matrix = IDENTITY
                    => <<rec[1], rec[2], rec[3]>> = raw
            /\ data.matrix = SCALE_SHIFT
                    => <<rec[1], rec[2], rec[3]>>
                            = <<2 * raw[1] + 2, 2 * raw[2] + 3, raw[3]>>
            /\ <<rec[4], rec[5], rec[6]>>
                    = <<data.color.r, data.color.g, data.color.b>>
            /\ rec[7] = data.color.a * data.alpha
            /\ (data.color = WHITE /\ data.alpha = 1)
                    => <<rec[4], rec[5], rec[6], rec[7]>> = <<1, 1, 1, 1>>

\* one white triangle under the identity transform and alpha 1 was pushed
\* into the empty batcher: records 0 .. 2 hold its raw positions and ones
C13_Witness ==
    /\ Len(pushed) = 1
    /\ paint = PlainPaint
    /\ pushed[1].n = 3
    /\ cb.index = 3
    /\ \E v \in cb.vertices :
            /\ cb.vertices = {v}
            /\ <<v.pos, v.len>> = <<0, 3>>
            /\ \A i \in 0 .. 2 :
                    Record(v, i) = RawVertex(1, i) \o <<1, 1, 1, 1>>

\* the step is a call of push_data, returned or panicked
PushCall == last' = "push_data" /\ Len(pushed') = Len(pushed) + 1

\* C14: a push grows the storage if and only if Vertex Storage length plus
\* the Batch Increment is strictly below the Platform Ceiling and the request
\* has more indices than the index capacity or cursor + its index count
\* reaches the index capacity. A growing push first draws the pending batch
\* from the storage as it was, then lengthens Vertex Storage by exactly one
\* Batch Increment and makes the index capacity the new length / stride; a
\* push that does not grow leaves both lengths alone.
C14_GrowthCondition ==
    [][PushCall =>
        LET data == LastData'
            room == usize_lt(cb.vertices_len + cb.batch_size, max_vertices(api))
            need == \/ data.n > cb.indices_len
                    \/ cb.index + data.n >= cb.indices_len
            grew == cb'.vertices_len # cb.vertices_len
            at == Len(gfx)
        IN  /\ grew <=> (room /\ need)
            /\ grew =>
                /\ cb'.vertices_len = cb.vertices_len + cb.batch_size
                /\ cb'.indices_len = cb'.vertices_len \div cb.offset
                /\ cb.index > 0 =>
                    /\ Len(gfx') >= at + 5
                    /\ gfx'[at + 2].len = cb.vertices_len
                    /\ gfx'[at + 3].len = cb.indices_len
                    /\ gfx'[at + 5] = [call |-> "draw", start |-> 0,
                                       count |-> cb.index]
            /\ ~grew => cb'.indices_len = cb.indices_len
            /\ cb'.batch_size = cb.batch_size
            /\ cb'.max_vertices = cb.max_vertices
    ]_vars

\* on the desktop a push of 9360 indices met 6 pending ones: they were drawn
\* from the storage of one Batch Increment, and the storage is now two
C14_Witness ==
    /\ api = "Other"
    /\ last = "push_data"
    /\ Len(pushed) = 2
    /\ <<pushed[1].n, pushed[2].n>> = <<6, 9360>>
    /\ cb.vertices_len = 2 * cb.batch_size
    /\ cb.indices_len = 18720
    /\ cb.index = 9360
    /\ Len(gfx) = 5
    /\ gfx[2].len = cb.batch_size
    /\ gfx[5].count = 6

\* the quotient of the two-limb number m by b (b at most 2^16)
usize_div(m, b) ==
    LET q0 == (U16_MAX + 1) \div b
        r0 == (U16_MAX + 1) % b
    IN  m[1] * q0 + (m[1] * r0 + m[2]) \div b

\* the index capacity of the batcher c once check_batch_size has grown it as
\* far as the Platform Ceiling lets it: the largest whole number of Batch
\* Increments strictly below max_vertices (one, if there is none)
CeilingIndices(c) ==
    LET below == <<c.max_vertices[1], c.max_vertices[2] - 1>>
    IN  Max(1, usize_div(below, c.batch_size)) * (c.batch_size \div c.offset)

\* C15: a push splits a request only when it cannot fit in one batch at any
\* capacity ceiling: whenever split_batch is entered, the request has more
\* indices than the index capacity that growth up to the Platform Ceiling
\* would give, not merely more than the capacity after one growth step.
C15_SplitOnlyBeyondCeiling ==
    [][SplitStep => LastData'.n > CeilingIndices(cb)]_vars

\* C16: at every draw call the blend mode of the pipeline that is set is the
\* blend mode of every request with geometry in the submitted batch, the
\* chunks of split requests included.
C16_BlendCoherence ==
    \A j \in DrawCalls :
        LET segs == DrawSegments(gfx, j)
            active == gfx[LastCall(gfx, j, "set_pipeline")].blend
        IN  \A i \in 1 .. Len(segs) :
                segs[i].req >= 1 => pushed[segs[i].req].blend = active

\* the calls made on Graphics come in the groups flush makes: pipeline,
\* vertex buffer, index buffer, uniform, then one draw call from 0 on of at
\* least one index and at most the index capacity bound with it
FlushGroups(g) ==
    /\ Len(g) % 5 = 0
    /\ \A k \in 0 .. (Len(g) \div 5 - 1) :
        /\ g[5 * k + 1].call = "set_pipeline"
        /\ g[5 * k + 2].call = "bind_vertex_buffer"
        /\ g[5 * k + 3].call = "bind_index_buffer"
        /\ g[5 * k + 4].call = "bind_uniform"
        /\ g[5 * k + 5].call = "draw"
        /\ g[5 * k + 5].start = 0
        /\ g[5 * k + 5].count \in 1 .. g[5 * k + 3].len

\* C17: the backend is invoked only by a flush with a non-zero cursor. Every
\* such flush issues exactly one draw call, over the index range 0 .. cursor
\* (count = cursor, never 0, never above the index capacity), and a flush
\* changes nothing of the batcher but the cursor: storage, capacities, Batch
\* Increment, Platform Ceiling and Active Blend Mode stay as they were.
C17_FlushOnlyDraws ==
    /\ [](FlushGroups(gfx))
    /\ [][last' = "flush" =>
            LET at == Len(gfx)
            IN  /\ cb' = [cb EXCEPT !.index = 0]
                /\ IF cb.index = 0 THEN gfx' = gfx
                   ELSE /\ Len(gfx') = at + 5
                        /\ SubSeq(gfx', 1, at) = gfx
                        /\ gfx'[at + 1].blend = cb.color_blend
                        /\ gfx'[at + 2].len = cb.vertices_len
                        /\ gfx'[at + 3].len = cb.indices_len
                        /\ gfx'[at + 5] = [call |-> "draw", start |-> 0,
                                           count |-> cb.index]
                        /\ cb.index <= cb.indices_len
       ]_vars

\* a flush has drawn two requests of 6 indices in one draw call of 12
C17_Witness ==
    /\ last = "flush"
    /\ Len(pushed) = 2
    /\ Len(gfx) = 5
    /\ gfx[5] = [call |-> "draw", start |-> 0, count |-> 12]
    /\ cb.index = 0

\* the counts of the draw calls among the first j calls, summed
RECURSIVE SumCounts(_)
SumCounts(j) ==
    IF j = 0 THEN 0
    ELSE SumCounts(j - 1) + (IF gfx[j].call = "draw" THEN gfx[j].count ELSE 0)

\* C18: no geometry is lost or duplicated: after any sequence of pushes the
\* index counts of all draw calls issued so far plus the Write Cursor add up
\* to the index counts of all pushed requests.
C18_NoLossNoDuplication ==
    SumCounts(Len(gfx)) + cb.index = SumN(1, Len(pushed))

\* C19: every draw call a push issues is made with the projection of the
\* requests whose geometry the batch contains: pending geometry is never
\* drawn with the projection of a later request whose push caused the flush.
C19_ProjectionCoherence ==
    [][PushCall =>
        \A j \in (Len(gfx) + 1) .. Len(gfx') :
            gfx'[j].call = "draw" =>
                LET segs == DrawSegments(gfx', j)
                    bound == gfx'[LastCall(gfx', j, "bind_uniform")].projection
                IN  \A i \in 1 .. Len(segs) :
                        segs[i].req >= 1
                            => pushed'[segs[i].req].projection = bound
    ]_vars

\* C20: a request that is not split is never divided across draw calls.
\* Every flush its push triggers is made before its vertices are appended:
\* no draw call of the push carries geometry of the request, and the push
\* leaves the whole request as the end of the pending batch. So every draw
\* call carries a request that fits the index capacity bound with it whole.
C20_UnsplitDrawnWhole ==
    /\ [][(PushCall /\ LastData'.n <= cb'.indices_len) =>
            LET data == LastData'
                whole == [req |-> data.id, lo |-> 0, hi |-> data.n - 1]
                pending == Merge(Segments(cb'.indices, cb'.vertices,
                                          0, cb'.index))
            IN  /\ ~panicked'
                /\ \A j \in (Len(gfx) + 1) .. Len(gfx') :
                        gfx'[j].call = "draw" =>
                            LET segs == DrawSegments(gfx', j)
                            IN  \A i \in 1 .. Len(segs) :
                                    segs[i].req # data.id
                /\ Len(pending) >= 1
                /\ pending[Len(pending)] = whole
       ]_vars
    /\ [](\A j \in DrawCalls :
            LET segs == Merge(DrawSegments(gfx, j))
                capacity == gfx[LastCall(gfx, j, "bind_index_buffer")].len
            IN  \A i \in 1 .. Len(segs) :
                    (segs[i].req >= 1 /\ pushed[segs[i].req].n <= capacity)
                        => /\ segs[i].lo = 0
                           /\ segs[i].hi = pushed[segs[i].req].n - 1)

\* on WebGl a push of 9360 indices met 6 pending ones: they were flushed
\* first, and a later flush drew the 9360 in one draw call
C20_Witness ==
    /\ api = "WebGl"
    /\ last = "flush"
    /\ Len(pushed) = 2
    /\ <<pushed[1].n, pushed[2].n>> = <<6, 9360>>
    /\ Len(gfx) = 10
    /\ gfx[5].count = 6
    /\ gfx[10].count = 9360
    /\ Merge(DrawSegments(gfx, 10)) = <<[req |-> 2, lo |-> 0, hi |-> 9359]>>

====
